---- MODULE Spec2Model ----
(***************************************************************************)
(* Model of the Modbus TCP server of the IRIV IO Controller:              *)
(* umodbus/tcp.py (TCPServer: bind, get_request, _send, send_response,     *)
(* send_exception_response) together with the environment it polls        *)
(* (sockets of the WIZnet pool, the ethernet link, time.monotonic());      *)
(* the main loop of main.py; and the register map, the register hooks and  *)
(* the counters of iriv_ioc_modbus.py and iriv_ioc_hal.py.                 *)
(*                                                                         *)
(* Six specifications share the state: Spec (the TCP server), MainSpec     *)
(* (the main loop), AppSpec (requests served on the counters' registers),  *)
(* IoSpec (requests served on the digital inputs and outputs), HalSpec     *)
(* (calls of en_counter and dis_counter) and ClientSpec (the TCP client's  *)
(* _create_mbap_hdr).                                                      *)
(***************************************************************************)
EXTENDS Integers, Sequences, FiniteSets, TLC

(***************************************************************************)
(* Bounds of the model.                                                    *)
(***************************************************************************)
\* largest max_connections passed to bind
MaxConn == 2
\* iterations of the main loop that are followed
MaxIter == 16
\* counter channels the Modbus master addresses (the first of 1, 3, 5, 7, 9)
MaxChannels == 2
\* digital outputs the Modbus master writes (the first of DO0 .. DO3)
MaxOutputs == 2
\* largest channel number passed to en_counter and dis_counter
MaxChannelNo == 4
\* calls of _create_mbap_hdr on one client that are followed: 2^16 + 1
MaxCalls == 65537

(***************************************************************************)
(* Program constants.                                                      *)
(***************************************************************************)
\* tcp.py:365  "time.monotonic() - self._link_timestamp >= 5"
LinkTimeout == 5
\* Const.MBAP_HDR_LENGTH (umodbus/const.py), 7 bytes by the frame format
MBAP_HDR_LENGTH == 7
\* Const.ERROR_BIAS (umodbus/const.py): exception PDU is function code | 0x80
ERROR_BIAS == 128
\* Modbus exception codes (umodbus/const.py)
ILLEGAL_FUNCTION == 1
ILLEGAL_DATA_VALUE == 3
\* iriv_ioc_modbus.py:151  addr_list = [0xff]
UNIT_ADDR == 255

\* Python None for an object reference / an unset attribute
None == 0
Unset == -1

(***************************************************************************)
(* Bytes and Python slices.                                                *)
(***************************************************************************)
Min(a, b) == IF a <= b THEN a ELSE b

\* s[a:b] of Python for 0 <= a
PySlice(s, a, b) ==
    LET hi == Min(b, Len(s))
    IN  IF hi <= a THEN << >> ELSE [i \in 1..(hi - a) |-> s[a + i]]

\* a big-endian unsigned 16-bit field ('>H')
U16(hi, lo) == hi * 256 + lo
PackU16(v) == << (v \div 256) % 256, v % 256 >>

(***************************************************************************)
(* Frames the peers send. Each is a byte sequence                          *)
(*   trans_id(2) proto_id(2) length(2) unit_id(1) PDU(length-1).            *)
(***************************************************************************)
Mbap(tid, pid, len, uid) == PackU16(tid) \o PackU16(pid) \o PackU16(len) \o <<uid>>

\* ReadCoils(address=0x0100, count=4)
PduReadCoils == <<1, 1, 0, 0, 4>>
\* ReadCoils with quantity 0
PduQtyZero == <<1, 1, 0, 0, 0>>

Frames ==
    { Mbap(1, 0, 6, UNIT_ADDR) \o PduReadCoils,        \* well formed
      Mbap(258, 0, 6, UNIT_ADDR) \o PduReadCoils,      \* well formed, other id
      Mbap(1, 1, 6, UNIT_ADDR) \o PduReadCoils,        \* protocol id 1
      Mbap(258, 0, 6, 1) \o PduReadCoils,              \* foreign unit id
      Mbap(1, 0, 6, UNIT_ADDR) \o PduQtyZero,          \* decode: illegal value
      << >>,                                           \* empty payload
      <<0, 1, 0, 1>>,                                  \* shorter than the header
      Mbap(1, 0, 0, UNIT_ADDR) \o PduReadCoils,        \* length field 0
      Mbap(258, 0, 20, UNIT_ADDR) \o PduReadCoils,     \* length beyond the data
      Mbap(258, 0, 3, UNIT_ADDR) \o <<1, 1>> }         \* truncated PDU

\* what recv(260) does: it raises OSError (timeout, I/O error) or returns bytes
RecvOutcomes ==
    {[err |-> TRUE, data |-> << >>]} \cup {[err |-> FALSE, data |-> f] : f \in Frames}

\* the unit address list the caller passes: None or [0xff]
AddrLists == {None, UNIT_ADDR}

\* tcp.py:420  "req_uid_and_pdu[0] not in unit_addr_list"
InAddrListAny(uid, lst) == TRUE

InAddrList(uid, lst) == uid = lst

\* the PDU functions.response() hands to _send for ReadCoils of four coils at 0
RespPdus == { <<1, 1, 0>> }

\* the exception code the server loop replies with when register access fails
ILLEGAL_DATA_ADDRESS == 2
ReplyCodes == { ILLEGAL_DATA_ADDRESS }


(***************************************************************************)
(* iriv_ioc_modbus.py, lines 27-95: model name, version and the register   *)
(* addresses.                                                              *)
(***************************************************************************)
MODEL1 == 18767    \* 0x494F
MODEL2 == 17152    \* 0x4300
VERSION_MAJOR == 2
VERSION_MINOR == 0
VERSION_PATCH == 0
DO0_ADD == 256    \* 0x0100
DO1_ADD == 257    \* 0x0101
DO2_ADD == 258    \* 0x0102
\* (an address slip that leaves 0x0103 undefined)
DO3_ADD_Gap == DO2_ADD + 2

DO3_ADD == 259    \* 0x0103
COUNT1_EN_ADD == 768    \* 0x0300
COUNT3_EN_ADD == 769    \* 0x0301
COUNT5_EN_ADD == 770    \* 0x0302
COUNT7_EN_ADD == 771    \* 0x0303
COUNT9_EN_ADD == 772    \* 0x0304
COUNT1_RST_ADD == 784    \* 0x0310
COUNT3_RST_ADD == 785    \* 0x0311
COUNT5_RST_ADD == 786    \* 0x0312
COUNT7_RST_ADD == 787    \* 0x0313
COUNT9_RST_ADD == 788    \* 0x0314
DI0_ADD == 0    \* 0x0000
DI1_ADD == 1    \* 0x0001
DI2_ADD == 2    \* 0x0002
DI3_ADD == 3    \* 0x0003
DI4_ADD == 4    \* 0x0004
DI5_ADD == 5    \* 0x0005
DI6_ADD == 6    \* 0x0006
DI7_ADD == 7    \* 0x0007
DI8_ADD == 8    \* 0x0008
DI9_ADD == 9    \* 0x0009
DI10_ADD == 10    \* 0x000a
ANV0_ADD == 512    \* 0x0200
ANV1_ADD == 513    \* 0x0201
ANA0_ADD == 528    \* 0x0210
ANA1_ADD == 529    \* 0x0211
COUNT1_H_ADD == 1024    \* 0x0400
COUNT1_L_ADD == 1025    \* 0x0401
\* (an address slip that puts COUNT3 on the low word of COUNT1)
COUNT3_H_ADD_Overlap == COUNT1_L_ADD

COUNT3_H_ADD == 1026    \* 0x0402
COUNT5_H_ADD == 1028    \* 0x0404
COUNT7_H_ADD == 1030    \* 0x0406
COUNT9_H_ADD == 1032    \* 0x0408
MODEL1_ADD == 3840    \* 0x0F00
VERSION_MAJOR_ADD == 3856    \* 0x0F10

(***************************************************************************)
(* iriv_ioc_modbus.py, lines 309-369: register_definitions. An entry maps   *)
(* "register" (its first address) and "len" to its value "val": the single  *)
(* bit or word of an entry written  "val": 0  is the one-element sequence,  *)
(* a list is the sequence of its elements. cb names the entry's on_set_cb   *)
(* or on_get_cb hook.                                                       *)
(***************************************************************************)
Entry(name, register, len, val, cb) ==
    [name |-> name, register |-> register, len |-> len, val |-> val, cb |-> cb]

COILS ==
    { Entry("DO0", DO0_ADD, 1, <<0>>, "dout_set_cb"),
      Entry("DO1", DO1_ADD, 1, <<0>>, "dout_set_cb"),
      Entry("DO2", DO2_ADD, 1, <<0>>, "dout_set_cb"),
      Entry("DO3", DO3_ADD, 1, <<0>>, "dout_set_cb"),
      Entry("COUNT1_EN", COUNT1_EN_ADD, 1, <<0>>, "counter_en_set_cb"),
      Entry("COUNT3_EN", COUNT3_EN_ADD, 1, <<0>>, "counter_en_set_cb"),
      Entry("COUNT5_EN", COUNT5_EN_ADD, 1, <<0>>, "counter_en_set_cb"),
      Entry("COUNT7_EN", COUNT7_EN_ADD, 1, <<0>>, "counter_en_set_cb"),
      Entry("COUNT9_EN", COUNT9_EN_ADD, 1, <<0>>, "counter_en_set_cb"),
      Entry("COUNT1_RST", COUNT1_RST_ADD, 1, <<0>>, "counter_rst_set_cb"),
      Entry("COUNT3_RST", COUNT3_RST_ADD, 1, <<0>>, "counter_rst_set_cb"),
      Entry("COUNT5_RST", COUNT5_RST_ADD, 1, <<0>>, "counter_rst_set_cb"),
      Entry("COUNT7_RST", COUNT7_RST_ADD, 1, <<0>>, "counter_rst_set_cb"),
      Entry("COUNT9_RST", COUNT9_RST_ADD, 1, <<0>>, "counter_rst_set_cb") }

ISTS ==
    { Entry("DI0", DI0_ADD, 1, <<0>>, "din_get_cb"),
      Entry("DI1", DI1_ADD, 1, <<0>>, "din_get_cb"),
      Entry("DI2", DI2_ADD, 1, <<0>>, "din_get_cb"),
      Entry("DI3", DI3_ADD, 1, <<0>>, "din_get_cb"),
      Entry("DI4", DI4_ADD, 1, <<0>>, "din_get_cb"),
      Entry("DI5", DI5_ADD, 1, <<0>>, "din_get_cb"),
      Entry("DI6", DI6_ADD, 1, <<0>>, "din_get_cb"),
      Entry("DI7", DI7_ADD, 1, <<0>>, "din_get_cb"),
      Entry("DI8", DI8_ADD, 1, <<0>>, "din_get_cb"),
      Entry("DI9", DI9_ADD, 1, <<0>>, "din_get_cb"),
      Entry("DI10", DI10_ADD, 1, <<0>>, "din_get_cb") }

IREGS ==
    { Entry("ANV0", ANV0_ADD, 1, <<0>>, "an_get_cb"),
      Entry("ANV1", ANV1_ADD, 1, <<0>>, "an_get_cb"),
      Entry("ANA0", ANA0_ADD, 1, <<0>>, "an_get_cb"),
      Entry("ANA1", ANA1_ADD, 1, <<0>>, "an_get_cb"),
      Entry("COUNT1", COUNT1_H_ADD, 2, <<0, 0>>, "counter_get_cb"),
      Entry("COUNT3", COUNT3_H_ADD, 2, <<0, 0>>, "counter_get_cb"),
      Entry("COUNT5", COUNT5_H_ADD, 2, <<0, 0>>, "counter_get_cb"),
      Entry("COUNT7", COUNT7_H_ADD, 2, <<0, 0>>, "counter_get_cb"),
      Entry("COUNT9", COUNT9_H_ADD, 2, <<0, 0>>, "counter_get_cb"),
      Entry("MODEL", MODEL1_ADD, 2, <<MODEL1, MODEL2>>, "none"),
      Entry("VERSION", VERSION_MAJOR_ADD, 3, <<VERSION_MAJOR, VERSION_MINOR, VERSION_PATCH>>, "none") }

register_definitions == [COILS |-> COILS, ISTS |-> ISTS, IREGS |-> IREGS]

(***************************************************************************)
(* State.                                                                  *)
(***************************************************************************)
VARIABLES
    socklist,        \* TCPServer._socklist: sequence of socket objects (ids)
    socknum,         \* TCPServer._socknum: the round-robin cursor (0-based)
    current_sock,    \* TCPServer._current_sock: a socket id or None
    is_bound,        \* TCPServer._is_bound
    link_elapsed,    \* time.monotonic() - TCPServer._link_timestamp, in seconds
    req_tid,         \* TCPServer._req_tid (no attribute until a header is parsed)
    sockstate,       \* the state of every socket object of the pool
    link_status,     \* sockpool._interface.link_status
    down_for,        \* seconds since the link went down (0 while it is up)
    link_seen_up,    \* a get_request has observed the link up
    pending,         \* the Request get_request returned and that awaits its reply
    recent,          \* slots inspected by the latest calls since bind (at most N)
    last             \* what the latest call of the server did

\* the main loop of main.py
VARIABLES
    main_pc,         \* where the loop stands: "process", "blink", "feed", "stopped"
    iter,            \* iterations of the loop completed
    proc_calls,      \* calls of client.process() made
    wd_feeds,        \* calls of watchdog.feed() made
    outcome,         \* how process() ended in the present iteration
    stop_cause,      \* the exception that ended the loop
    led              \* Hal.led.value

tcpvars == << socklist, socknum, current_sock, is_bound, link_elapsed, req_tid,
              sockstate, link_status, down_for, link_seen_up, pending,
              recent, last >>

mainvars == << main_pc, iter, proc_calls, wd_feeds, outcome, stop_cause, led >>

\* the register table, the outputs and the counters
VARIABLES
    coils,           \* stored value of every COILS entry, by its address
    iregs,           \* stored value of every IREGS entry, by its address
    counters,        \* Hal.count1 .. Hal.count9: the counter objects
    dout,            \* Hal.dout0.value .. Hal.dout3.value
    app_last,        \* the request process() served last and its result
    ists             \* stored value of every ISTS entry, by its address

appvars == << coils, iregs, counters, dout, app_last, ists >>

\* direct calls of the HAL functions
VARIABLES
    hal_last         \* the HAL call made last: its arguments and its result

halvars == << hal_last >>

\* the TCP client (class TCP)
VARIABLES
    trans_id_ctr,    \* TCP.trans_id_ctr
    client_calls,    \* calls of _create_mbap_hdr made so far
    client_last      \* what the latest call of _create_mbap_hdr gave

clientvars == << trans_id_ctr, client_calls, client_last >>

vars == << tcpvars, mainvars, appvars, halvars, clientvars >>

\* Socket objects. Slot i of the pool (1-based) draws its objects from
\* {2i-1, 2i}: a new socket for a slot is the one of the two that is not the
\* slot's present socket, so a new object never equals a live one.
SockIds == 1..(2 * MaxConn)
SockStates == {"free", "listen", "established", "closewait", "closed"}

NewSockFor(slot, old) == IF old = 2 * slot - 1 THEN 2 * slot ELSE 2 * slot - 1

\* A Request: the unit address and function code decoded from the frame, with
\* the transaction id of that frame and the socket it was received on.
NoRequest == [tid |-> Unset, sock |-> None, unit_addr |-> 0, function |-> 0]

\* the transaction id field of a frame
FrameTid(frame) == U16(frame[1], frame[2])

Idle ==
    [ op |-> "env", slot |-> Unset, sock |-> None, raised |-> "none",
      ret |-> "none", closed |-> FALSE, replaced |-> FALSE, recv |-> FALSE,
      recv_err |-> FALSE, frame |-> << >>, addr_list |-> None, sent |-> << >>,
      is_connected |-> FALSE, is_closed |-> FALSE, was |-> "free",
      req |-> NoRequest, max_connections |-> Unset ]

(***************************************************************************)
(* TCPServer.get_request, lines 354-356: the cursor for the next call.     *)
(***************************************************************************)
NextSocknumNoWrap(n, len) == IF n + 1 > len THEN 0 ELSE n + 1

NextSocknum(n, len) == IF n + 1 >= len THEN 0 ELSE n + 1

(***************************************************************************)
(* TCPServer.get_request, line 365: the link has been down long enough.    *)
(* The code reads time.monotonic() and _link_timestamp only through their  *)
(* difference (line 365) and writes _link_timestamp := time.monotonic()    *)
(* (line 371), which sets the difference to 0. The model keeps the         *)
(* difference, link_elapsed: it starts at time.monotonic() - 0 (line 206), *)
(* grows with the clock and counts no further than LinkTimeout, the only   *)
(* value it is compared with.                                              *)
(***************************************************************************)
LinkExpiredLate(elapsed) == elapsed > LinkTimeout

LinkExpired(elapsed) == elapsed >= LinkTimeout

(***************************************************************************)
(* TCPServer.get_request, lines 383-384: the slot's socket is replaced.    *)
(***************************************************************************)
MustReplaceEager(is_connected, is_closed) == ~is_connected

MustReplaceNever(is_connected, is_closed) == FALSE

MustReplace(is_connected, is_closed) == ~is_connected /\ is_closed

(***************************************************************************)
(* TCPServer.get_request, line 392: the new socket takes the slot.         *)
(***************************************************************************)
ReplaceSlotFirst(list, idx, sock) == [list EXCEPT ![1] = sock]

ReplaceSlot(list, idx, sock) == [list EXCEPT ![idx + 1] = sock]

(***************************************************************************)
(* TCPServer.get_request, lines 402-407: the header of the received bytes. *)
(* struct.unpack('>HHH', req[:6]) raises unless req[:6] has 6 bytes.       *)
(***************************************************************************)
ParseHeader(req) ==
    LET hdr == PySlice(req, 0, MBAP_HDR_LENGTH - 1)
    IN  IF Len(hdr) # 6
        THEN [ok |-> FALSE, tid |-> 0, pid |-> 0, len |-> 0, uid_and_pdu |-> << >>]
        ELSE LET len == U16(hdr[5], hdr[6])
             IN  [ ok |-> TRUE,
                   tid |-> U16(hdr[1], hdr[2]),
                   pid |-> U16(hdr[3], hdr[4]),
                   len |-> len,
                   uid_and_pdu |-> PySlice(req, MBAP_HDR_LENGTH - 1,
                                           MBAP_HDR_LENGTH + len - 1) ]

(***************************************************************************)
(* TCPServer.get_request, line 416: the protocol id check.                 *)
(***************************************************************************)
PidAcceptedAny(pid) == TRUE

PidAccepted(pid) == pid = 0

(***************************************************************************)
(* Request(self, req_uid_and_pdu) of umodbus/common.py: the PDU codec's    *)
(* decoding. A request carries a unit id and a function code; decoding     *)
(* fails with IllegalFunction for an unsupported code and IllegalDataValue *)
(* for a quantity of zero or above the maximum, or a wrong byte length.    *)
(***************************************************************************)
ReadBitFcs == {1, 2}
ReadRegFcs == {3, 4}
WriteOneFcs == {5, 6}
WriteManyFcs == {15, 16}
SupportedFcs == ReadBitFcs \cup ReadRegFcs \cup WriteOneFcs \cup WriteManyFcs

MaxQuantity(fc) ==
    IF fc \in ReadBitFcs THEN 2000
    ELSE IF fc \in ReadRegFcs THEN 125
    ELSE IF fc = 15 THEN 1968 ELSE 123

DecodeRequest(data) ==
    IF Len(data) < 2
    THEN [kind |-> "error", unit_addr |-> 0, function |-> 0, code |-> 0]
    ELSE LET uid == data[1]
             fc == data[2]
             fail(c) == [kind |-> "modbus", unit_addr |-> uid, function |-> fc, code |-> c]
             good == [kind |-> "request", unit_addr |-> uid, function |-> fc, code |-> 0]
         IN  IF fc \notin SupportedFcs THEN fail(ILLEGAL_FUNCTION)
             ELSE IF Len(data) < 6 THEN fail(ILLEGAL_DATA_VALUE)
             ELSE IF fc \in WriteOneFcs THEN good
             ELSE LET qty == U16(data[5], data[6])
                  IN  IF qty < 1 \/ qty > MaxQuantity(fc) THEN fail(ILLEGAL_DATA_VALUE)
                      ELSE IF fc \in WriteManyFcs
                              /\ (Len(data) < 7 \/ Len(data) # 7 + data[7])
                           THEN fail(ILLEGAL_DATA_VALUE)
                           ELSE good

\* functions.exception_response(function_code, exception_code)
ExceptionPdu(fc, code) == << (fc + ERROR_BIAS) % 256, code >>

(***************************************************************************)
(* TCPServer._send, lines 276-279: the ADU and the socket it is sent on.   *)
(***************************************************************************)
PackAduZeroTid(tid, slave_addr, pdu) ==
    PackU16(0) \o PackU16(0) \o PackU16(Len(pdu) + 1) \o <<slave_addr>> \o pdu

PackAdu(tid, slave_addr, pdu) ==
    PackU16(tid) \o PackU16(0) \o PackU16(Len(pdu) + 1) \o <<slave_addr>> \o pdu

SendSockAtCursor(cur, list, n) == IF n < Len(list) THEN list[n + 1] ELSE cur

SendSock(cur, list, n) == cur

\* the messages one call of _send puts on the wire: none when it raises
\* (no _req_tid attribute yet, or _current_sock is None)
Send(cur, list, n, tid, pdu, slave_addr) ==
    IF tid = Unset \/ cur = None
    THEN << >>
    ELSE << [sock |-> SendSock(cur, list, n), adu |-> PackAdu(tid, slave_addr, pdu)] >>

(***************************************************************************)
(* Reading _connected and _socket_closed of a socket, lines 376-381.       *)
(* Reading _connected of a socket whose peer has gone may close it (the    *)
(* workaround of lines 374-375) or find the close handshake unfinished;    *)
(* either read may raise, which lines 379-381 turn into "closed".          *)
(***************************************************************************)
ReadSocket(st, read_fails, flag_updated) ==
    IF read_fails THEN [is_connected |-> FALSE, is_closed |-> TRUE, st |-> st]
    ELSE IF st = "established" THEN [is_connected |-> TRUE, is_closed |-> FALSE, st |-> st]
    ELSE IF st = "closewait" /\ flag_updated
         THEN [is_connected |-> FALSE, is_closed |-> TRUE, st |-> "closed"]
    ELSE [is_connected |-> FALSE, is_closed |-> (st = "closed"), st |-> st]

\* the slots inspected by the latest calls, at most one round of the pool
Remember(seq, slot, len) ==
    IF Len(seq) < len THEN Append(seq, slot) ELSE Append(Tail(seq), slot)

(***************************************************************************)
(* TCPServer.get_request, lines 425-427: Request() raised ModbusException; *)
(* d is the failed decoding, req the received bytes. The reply's slave     *)
(* address argument is req[0].                                             *)
(***************************************************************************)
DecodeFailedSilent(cur, list, n, tid, d, req) == << >>

DecodeFailed(cur, list, n, tid, d, req) ==
    Send(cur, list, n, tid, ExceptionPdu(d.function, d.code), req[1])

(***************************************************************************)
(* TCPServer.get_request, lines 397-427: receive, parse, filter, decode.   *)
(* The result names what is returned or raised, the new _req_tid and what  *)
(* was sent; cur is the inspected socket, n the cursor already advanced.   *)
(***************************************************************************)
Receive(cur, list, n, tid, addr_list, rx) ==
    LET quiet == [ret |-> "none", raised |-> "none", tid |-> tid, sent |-> << >>,
                  request |-> NoRequest]
        hdr == ParseHeader(rx.data)
        d == DecodeRequest(hdr.uid_and_pdu)
    IN  IF rx.err THEN quiet
        ELSE IF Len(rx.data) = 0 THEN quiet
        ELSE IF ~hdr.ok THEN quiet
        ELSE IF ~PidAccepted(hdr.pid) THEN [quiet EXCEPT !.tid = hdr.tid]
        ELSE IF addr_list # None /\ Len(hdr.uid_and_pdu) = 0
             THEN [quiet EXCEPT !.tid = hdr.tid, !.raised = "IndexError"]
        ELSE IF addr_list # None /\ ~InAddrList(hdr.uid_and_pdu[1], addr_list)
             THEN [quiet EXCEPT !.tid = hdr.tid]
        ELSE IF d.kind = "request"
             THEN [quiet EXCEPT !.tid = hdr.tid, !.ret = "request",
                                !.request = [tid |-> FrameTid(rx.data), sock |-> cur,
                                             unit_addr |-> d.unit_addr,
                                             function |-> d.function]]
        ELSE IF d.kind = "modbus"
             THEN [quiet EXCEPT !.tid = hdr.tid,
                                !.sent = DecodeFailed(cur, list, n, hdr.tid, d,
                                                      rx.data)]
        ELSE [quiet EXCEPT !.tid = hdr.tid, !.raised = "DecodeError"]

(***************************************************************************)
(* The counters of iriv_ioc_hal.py. A channel's counter object is absent   *)
(* (count1 = None, lines 88-92) or a countio.Counter with its count; din   *)
(* tells whether the channel's DigitalInOut (din1, lines 54-76) is         *)
(* initialised.                                                            *)
(***************************************************************************)
CounterChannels == {1, 3, 5, 7, 9}
ChannelSeq == <<1, 3, 5, 7, 9>>

NoCounter == [on |-> FALSE, count |-> 0, din |-> TRUE]
\* din1.deinit(); count1 = countio.Counter(board.DI1, ...)  (lines 134-135)
NewCounter == [on |-> TRUE, count |-> 0, din |-> FALSE]

\* counts the hardware is observed at: 0, 2^8, 2^24
CountValues == {0, 256, 16777216}

\* en_counter creating the counter anew when it exists already
EnCounterAgain(cs, channel) ==
    IF channel \in CounterChannels
    THEN [ret |-> TRUE, counters |-> [cs EXCEPT ![channel] = NewCounter]]
    ELSE [ret |-> FALSE, counters |-> cs]

\* iriv_ioc_hal.py, lines 126-158
EnCounter(cs, channel) ==
    IF channel \in CounterChannels /\ ~cs[channel].on
    THEN [ret |-> TRUE, counters |-> [cs EXCEPT ![channel] = NewCounter]]
    ELSE [ret |-> FALSE, counters |-> cs]

\* iriv_ioc_hal.py, lines 164-215
DisCounter(cs, channel) ==
    IF channel \in CounterChannels /\ cs[channel].on
    THEN [ret |-> TRUE, counters |-> [cs EXCEPT ![channel] = NoCounter]]
    ELSE [ret |-> FALSE, counters |-> cs]

(***************************************************************************)
(* The register table of umodbus/modbus.py: setup_registers stores every   *)
(* entry's value under its address; get_coil, set_coil and set_ireg read   *)
(* and store the value of the entry at an address.                         *)
(***************************************************************************)
SetupRegisters(entries) ==
    [a \in {e.register : e \in entries} |->
        (CHOOSE e \in entries : e.register = a).val]

GetCoil(table, address) == table[address][1]
SetCoil(table, address, value) == [table EXCEPT ![address] = <<value>>]
SetIreg(table, address, values) == [table EXCEPT ![address] = values]
SetIst(table, address, value) == [table EXCEPT ![address] = <<value>>]

\* the addresses of a channel's registers
EnAdd(c) ==
    CASE c = 1 -> COUNT1_EN_ADD [] c = 3 -> COUNT3_EN_ADD [] c = 5 -> COUNT5_EN_ADD
      [] c = 7 -> COUNT7_EN_ADD [] c = 9 -> COUNT9_EN_ADD

RstAdd(c) ==
    CASE c = 1 -> COUNT1_RST_ADD [] c = 3 -> COUNT3_RST_ADD [] c = 5 -> COUNT5_RST_ADD
      [] c = 7 -> COUNT7_RST_ADD [] c = 9 -> COUNT9_RST_ADD

HAdd(c) ==
    CASE c = 1 -> COUNT1_H_ADD [] c = 3 -> COUNT3_H_ADD [] c = 5 -> COUNT5_H_ADD
      [] c = 7 -> COUNT7_H_ADD [] c = 9 -> COUNT9_H_ADD

\* the address of the register of digital input i
DiAdd(i) ==
    CASE i = 0 -> DI0_ADD [] i = 1 -> DI1_ADD [] i = 2 -> DI2_ADD [] i = 3 -> DI3_ADD
      [] i = 4 -> DI4_ADD [] i = 5 -> DI5_ADD [] i = 6 -> DI6_ADD [] i = 7 -> DI7_ADD
      [] i = 8 -> DI8_ADD [] i = 9 -> DI9_ADD [] i = 10 -> DI10_ADD

\* the address of the coil of digital output i
DoAdd(i) ==
    CASE i = 0 -> DO0_ADD [] i = 1 -> DO1_ADD [] i = 2 -> DO2_ADD [] i = 3 -> DO3_ADD

(***************************************************************************)
(* The hooks of iriv_ioc_modbus.py. A hook runs on the record              *)
(*   [coils, iregs, ists, counters, dout, pins, seen, raised]              *)
(* and gives the record it leaves; raised names the exception that ended   *)
(* it, pins are the levels at the input pins while it runs, and seen holds *)
(* the level it read from every pin it read. Each hook is the source's     *)
(* five blocks, one per channel, in order.                                 *)
(***************************************************************************)
\* Hal.din<i>.value: the level of pin i is read
ReadPin(i, a) == [a EXCEPT !.seen = [j \in (DOMAIN a.seen) \cup {i} |-> a.pins[j]]]

\* lines 163-168, for input i without counter function
DinPlain(i, a) ==
    [ReadPin(i, a) EXCEPT !.ists = SetIst(a.ists, DiAdd(i), a.pins[i])]

\* the same block reading the pin whatever the enable coil says
DinBlockAlwaysRead(c, a) ==
    IF a.raised # "none" THEN a
    ELSE IF ~a.counters[c].din
         THEN [a EXCEPT !.raised = "ValueError"]
         ELSE [ReadPin(c, a) EXCEPT !.ists = SetIst(a.ists, DiAdd(c), a.pins[c])]

\* lines 173-174, for input c with counter function; the value of a
\* DigitalInOut that was deinitialised cannot be read: ValueError
DinBlock(c, a) ==
    IF a.raised # "none" THEN a
    ELSE IF GetCoil(a.coils, EnAdd(c)) = 0
    THEN IF ~a.counters[c].din
         THEN [a EXCEPT !.raised = "ValueError"]
         ELSE [ReadPin(c, a) EXCEPT !.ists = SetIst(a.ists, DiAdd(c), a.pins[c])]
    ELSE [a EXCEPT !.ists = SetIst(a.ists, DiAdd(c), 0)]

\* lines 160-182
DinGetCb(a) ==
    LET plain == DinPlain(10, DinPlain(8, DinPlain(6,
                     DinPlain(4, DinPlain(2, DinPlain(0, a))))))
    IN  DinBlock(9, DinBlock(7, DinBlock(5, DinBlock(3, DinBlock(1, plain)))))

\* lines 187-192 with dout0 alone driven
DoutSetCbFirstOnly(a) ==
    [a EXCEPT !.dout[0] = GetCoil(a.coils, DO0_ADD)]

\* lines 187-192
DoutSetCb(a) ==
    [a EXCEPT !.dout = [i \in 0..3 |->
        GetCoil(a.coils, CASE i = 0 -> DO0_ADD [] i = 1 -> DO1_ADD
                           [] i = 2 -> DO2_ADD [] i = 3 -> DO3_ADD)]]

\* lines 214-218, for channel c
EnBlockNoClear(c, a) ==
    IF GetCoil(a.coils, EnAdd(c)) = 1
    THEN [a EXCEPT !.counters = EnCounter(a.counters, c).counters]
    ELSE [a EXCEPT !.counters = DisCounter(a.counters, c).counters]

\* the same block never disabling the counter
EnBlockNoDisable(c, a) ==
    IF GetCoil(a.coils, EnAdd(c)) = 1
    THEN LET r == EnCounter(a.counters, c)
         IN  IF r.ret
             THEN [a EXCEPT !.counters = r.counters,
                            !.iregs = SetIreg(a.iregs, HAdd(c), <<0, 0>>)]
             ELSE a
    ELSE a

\* the same block clearing the counter whenever the coil is 1
EnBlockAlwaysClear(c, a) ==
    IF GetCoil(a.coils, EnAdd(c)) = 1
    THEN [a EXCEPT !.counters[c] = NewCounter,
                   !.iregs = SetIreg(a.iregs, HAdd(c), <<0, 0>>)]
    ELSE [a EXCEPT !.counters = DisCounter(a.counters, c).counters]

EnBlock(c, a) ==
    IF GetCoil(a.coils, EnAdd(c)) = 1
    THEN LET r == EnCounter(a.counters, c)
         IN  IF r.ret
             THEN [a EXCEPT !.counters = r.counters,
                            !.iregs = SetIreg(a.iregs, HAdd(c), <<0, 0>>)]
             ELSE a
    ELSE [a EXCEPT !.counters = DisCounter(a.counters, c).counters]

\* lines 211-246
CounterEnSetCb(a) == EnBlock(9, EnBlock(7, EnBlock(5, EnBlock(3, EnBlock(1, a)))))

\* lines 254-257, for channel c: Hal.count1.reset() on the counter object,
\* which is None while the counter is disabled
RstBlock(c, a) ==
    IF a.raised # "none" THEN a
    ELSE IF GetCoil(a.coils, RstAdd(c)) = 1
    THEN LET cleared == [a EXCEPT !.coils = SetCoil(a.coils, RstAdd(c), 0)]
         IN  IF ~a.counters[c].on
             THEN [cleared EXCEPT !.raised = "AttributeError"]
             ELSE [cleared EXCEPT !.counters[c].count = 0,
                                  !.iregs = SetIreg(a.iregs, HAdd(c), <<0, 0>>)]
    ELSE a

\* lines 251-277
CounterRstSetCb(a) == RstBlock(9, RstBlock(7, RstBlock(5, RstBlock(3, RstBlock(1, a)))))

\* line 285: [count >> 8, count & 0xffff]
HighWord(count) == count \div 256
LowWord(count) == count % 65536

\* lines 283-285, for channel c
GetBlock(c, a) ==
    IF a.raised # "none" THEN a
    ELSE IF GetCoil(a.coils, EnAdd(c)) = 1
    THEN IF ~a.counters[c].on
         THEN [a EXCEPT !.raised = "AttributeError"]
         ELSE LET count == a.counters[c].count
              IN  [a EXCEPT !.iregs = SetIreg(a.iregs, HAdd(c),
                                              <<HighWord(count), LowWord(count)>>)]
    ELSE a

\* lines 282-301
CounterGetCb(a) == GetBlock(9, GetBlock(7, GetBlock(5, GetBlock(3, GetBlock(1, a)))))

\* the hook an entry names
RunHook(cb, a) ==
    IF a.raised # "none" THEN a
    ELSE CASE cb = "dout_set_cb" -> DoutSetCb(a)
           [] cb = "counter_en_set_cb" -> CounterEnSetCb(a)
           [] cb = "counter_rst_set_cb" -> CounterRstSetCb(a)
           [] cb = "counter_get_cb" -> CounterGetCb(a)
           [] cb = "din_get_cb" -> DinGetCb(a)
           [] OTHER -> a

(***************************************************************************)
(* Register access of the server loop (umodbus/modbus.py). A range         *)
(* [address, address + count) resolves when the entries of the space cover *)
(* it exactly, entry after entry from address on: its value is the         *)
(* entries' values in address order. Otherwise the access fails with       *)
(* IllegalDataAddress.                                                     *)
(***************************************************************************)
EntryAt(entries, address) ==
    {e \in entries : e.register = address}

RECURSIVE Covering(_, _, _)
\* the entries covering the range, in address order; ok is FALSE when the
\* range is not covered
Covering(entries, address, count) ==
    IF count = 0 THEN [ok |-> TRUE, list |-> << >>]
    ELSE LET here == {e \in EntryAt(entries, address) : e.len <= count}
         IN  IF here = {} THEN [ok |-> FALSE, list |-> << >>]
             ELSE LET e == CHOOSE x \in here : TRUE
                      rest == Covering(entries, address + e.len, count - e.len)
                  IN  [ok |-> rest.ok, list |-> <<e>> \o rest.list]

RECURSIVE ReadValues(_, _)
ReadValues(table, list) ==
    IF list = << >> THEN << >>
    ELSE table[Head(list).register] \o ReadValues(table, Tail(list))

RECURSIVE RunHooks(_, _)
RunHooks(list, a) ==
    IF list = << >> THEN a
    ELSE RunHooks(Tail(list), RunHook(Head(list).cb, a))

\* functions.response for a read of bits: the bits packed into bytes, the
\* first bit in the least significant position
RECURSIVE BitsValue(_)
BitsValue(bits) ==
    IF bits = << >> THEN 0 ELSE Head(bits) + 2 * BitsValue(Tail(bits))

PackBits(bits) ==
    [i \in 1..((Len(bits) + 7) \div 8) |->
        BitsValue(PySlice(bits, 8 * (i - 1), 8 * i))]

\* the function codes of the requests
READ_COILS == 1
READ_DISCRETE_INPUTS == 2
READ_INPUT_REGISTER == 4
WRITE_SINGLE_COIL == 5

ReadCoilsReq(address, quantity) ==
    [fc |-> READ_COILS, address |-> address, quantity |-> quantity, value |-> 0]
ReadIstsReq(address, quantity) ==
    [fc |-> READ_DISCRETE_INPUTS, address |-> address, quantity |-> quantity, value |-> 0]
ReadIregsReq(address, quantity) ==
    [fc |-> READ_INPUT_REGISTER, address |-> address, quantity |-> quantity, value |-> 0]
WriteCoilReq(address, value) ==
    [fc |-> WRITE_SINGLE_COIL, address |-> address, quantity |-> 1, value |-> value]

\* the result of serving request r on record a: the record left, and the
\* reply (the values read and the payload bytes of the response, or an
\* exception code, or nothing when a hook raised)
Serve(r, a) ==
    LET fail(code) == [a |-> a, kind |-> "exception", code |-> code,
                       values |-> << >>, payload |-> << >>]
        done(b, values, payload) ==
            IF b.raised # "none"
            THEN [a |-> b, kind |-> "raised", code |-> 0,
                  values |-> << >>, payload |-> << >>]
            ELSE [a |-> b, kind |-> "response", code |-> 0,
                  values |-> values, payload |-> payload]
    IN  IF r.fc = READ_COILS
        THEN LET cov == Covering(COILS, r.address, r.quantity)
                 bits == ReadValues(a.coils, cov.list)
             IN  IF ~cov.ok THEN fail(ILLEGAL_DATA_ADDRESS)
                 ELSE done(a, bits, PackBits(bits))
        ELSE IF r.fc = READ_DISCRETE_INPUTS
        THEN LET cov == Covering(ISTS, r.address, r.quantity)
                 b == RunHooks(cov.list, a)
                 bits == ReadValues(b.ists, cov.list)
             IN  IF ~cov.ok THEN fail(ILLEGAL_DATA_ADDRESS)
                 ELSE done(b, bits, PackBits(bits))
        ELSE IF r.fc = READ_INPUT_REGISTER
        THEN LET cov == Covering(IREGS, r.address, r.quantity)
                 b == RunHooks(cov.list, a)
             IN  IF ~cov.ok THEN fail(ILLEGAL_DATA_ADDRESS)
                 ELSE done(b, ReadValues(b.iregs, cov.list), << >>)
        ELSE LET cov == Covering(COILS, r.address, 1)
                 stored == [a EXCEPT !.coils = SetCoil(a.coils, r.address, r.value)]
                 b == RunHooks(cov.list, stored)
             IN  IF ~cov.ok THEN fail(ILLEGAL_DATA_ADDRESS)
                 ELSE done(b, <<r.value>>, << >>)

(***************************************************************************)
(* The state after iriv_ioc_hal.py and iriv_ioc_modbus.py are imported:    *)
(* the outputs at 0 (lines 46-49), the inputs initialised and no counter   *)
(* (lines 54-76, 88-92), the table set up from register_definitions        *)
(* (line 374).                                                             *)
(***************************************************************************)
NoApp ==
    [req |-> [fc |-> 0, address |-> 0, quantity |-> 0, value |-> 0],
     kind |-> "none", code |-> 0, values |-> << >>, payload |-> << >>,
     raised |-> "none", was_on |-> FALSE, seen |-> << >>]

AppInit ==
    /\ coils = SetupRegisters(register_definitions.COILS)
    /\ iregs = SetupRegisters(register_definitions.IREGS)
    /\ ists = SetupRegisters(register_definitions.ISTS)
    /\ counters = [c \in CounterChannels |-> NoCounter]
    /\ dout = [i \in 0..3 |-> 0]
    /\ app_last = NoApp

\* no HAL function called yet
NoHal ==
    [op |-> "none", channel |-> 0, ret |-> FALSE,
     before |-> [c \in CounterChannels |-> NoCounter],
     prev |-> [op |-> "none", channel |-> 0]]

HalInit == hal_last = NoHal

(***************************************************************************)
(* TCP.__init__, lines 85-86: the counter of transaction ids starts at 0.  *)
(***************************************************************************)
NoHdr == [raised |-> "none", trans_id |-> Unset, hdr |-> << >>]

ClientInit ==
    /\ trans_id_ctr = 0
    /\ client_calls = 0
    /\ client_last = NoHdr

(***************************************************************************)
(* main.py, lines 23-27: the state when the main loop is entered. The LED  *)
(* was lit by iriv_ioc_modbus.py:121 when the TCP server was set up.       *)
(***************************************************************************)
MainInit ==
    /\ main_pc = "process"
    /\ iter = 0
    /\ proc_calls = 0
    /\ wd_feeds = 0
    /\ outcome = "none"
    /\ stop_cause = "none"
    /\ led = 1

(***************************************************************************)
(* Init: the state after TCPServer.__init__ (lines 198-206). The module    *)
(* constructs the server only once the link is up                          *)
(* (iriv_ioc_modbus.py:134).                                               *)
(***************************************************************************)
Init ==
    /\ socklist = << >>
    /\ socknum = 0
    /\ current_sock = None
    /\ is_bound = FALSE
    /\ link_elapsed = 0
    /\ req_tid = Unset
    /\ sockstate = [s \in SockIds |-> "free"]
    /\ link_status = TRUE
    /\ down_for = 0
    /\ link_seen_up = FALSE
    /\ pending = NoRequest
    /\ recent = << >>
    /\ last = Idle
    /\ MainInit
    /\ AppInit
    /\ HalInit
    /\ ClientInit

(***************************************************************************)
(* TCPServer.bind, lines 243-246 and 255-262: the sockets of the old pool  *)
(* are closed and dropped, the sockets of the new pool listen.             *)
(***************************************************************************)
RebindKeepOpen(states, new) ==
    [s \in SockIds |-> IF s \in new THEN "listen" ELSE states[s]]

Rebind(states, new) ==
    [s \in SockIds |-> IF s \in new THEN "listen" ELSE "free"]

(***************************************************************************)
(* TCPServer.bind, lines 242-265.                                          *)
(***************************************************************************)
Bind(max_connections) ==
    LET old == {socklist[i] : i \in 1..Len(socklist)}
        fresh == [i \in 1..max_connections |->
                     NewSockFor(i, IF i <= Len(socklist) THEN socklist[i] ELSE None)]
        new == {fresh[i] : i \in 1..max_connections}
    IN  /\ current_sock' = None
        /\ IF max_connections < 1
           THEN /\ socklist' = << >>
                /\ sockstate' = Rebind(sockstate, {})
                /\ UNCHANGED << socknum, is_bound >>
           ELSE /\ socklist' = fresh
                /\ sockstate' = Rebind(sockstate, new)
                /\ socknum' = 0
                /\ is_bound' = TRUE
        /\ recent' = << >>
        /\ last' = [Idle EXCEPT !.op = "bind", !.max_connections = max_connections]
        /\ UNCHANGED << link_elapsed, req_tid, link_status, down_for,
                        link_seen_up, pending >>
        /\ UNCHANGED << mainvars, appvars, halvars, clientvars >>

(***************************************************************************)
(* The inputs of one get_request call: the caller's unit address list      *)
(* (the deployment passes [0xff], iriv_ioc_modbus.py:151), what recv()     *)
(* does, whether reading the socket's state raises, and whether that read  *)
(* closes a socket whose peer has gone. An input the call does not read in *)
(* the present state is held at one value, so that one call is one step.   *)
(***************************************************************************)
QuietRx == [err |-> TRUE, data |-> << >>]

\* what recv() does leads the call to the unit address filter of line 420
ReachesFilter(rx) ==
    /\ ~rx.err
    /\ Len(rx.data) # 0
    /\ ParseHeader(rx.data).ok
    /\ PidAccepted(ParseHeader(rx.data).pid)

PollInputs(addr_list) ==
    LET one(f, u) == {[rx |-> QuietRx, f |-> f, u |-> u]}
        st == sockstate[socklist[socknum + 1]]
        frames == IF addr_list = UNIT_ADDR THEN RecvOutcomes
                  ELSE {rx \in RecvOutcomes : ReachesFilter(rx)}
    IN  IF socknum >= Len(socklist) \/ ~link_status
        THEN IF addr_list = UNIT_ADDR THEN one(FALSE, FALSE) ELSE {}
        ELSE IF st = "established"
        THEN {[rx |-> rx, f |-> FALSE, u |-> FALSE] : rx \in frames}
             \cup (IF addr_list = UNIT_ADDR THEN one(TRUE, FALSE) ELSE {})
        ELSE IF addr_list # UNIT_ADDR THEN {}
        ELSE IF st = "closewait"
        THEN one(FALSE, FALSE) \cup one(FALSE, TRUE) \cup one(TRUE, FALSE)
        ELSE one(FALSE, FALSE) \cup one(TRUE, FALSE)

(***************************************************************************)
(* TCPServer.get_request, lines 350-427.                                   *)
(***************************************************************************)
GetRequest(addr_list, rx, read_fails, flag_updated) ==
    IF socknum >= Len(socklist)
    THEN \* line 350: IndexError, nothing assigned
         /\ last' = [Idle EXCEPT !.op = "get_request", !.raised = "IndexError"]
         /\ pending' = NoRequest
         /\ UNCHANGED << mainvars, appvars, halvars, clientvars >>
         /\ UNCHANGED << socklist, socknum, current_sock, is_bound, link_elapsed,
                         req_tid, sockstate, link_status, down_for,
                         link_seen_up, recent >>
    ELSE
    LET cur == socklist[socknum + 1]
        current_socknum == socknum
        n == NextSocknum(socknum, Len(socklist))
        call == [Idle EXCEPT !.op = "get_request", !.slot = current_socknum,
                             !.sock = cur, !.was = sockstate[cur]]
    IN  /\ socknum' = n
        /\ recent' = Remember(recent, current_socknum, Len(socklist))
        /\ UNCHANGED << is_bound, link_status, down_for >>
        /\ UNCHANGED << mainvars, appvars, halvars, clientvars >>
        /\ IF cur = None
           THEN \* line 359
                /\ current_sock' = cur
                /\ last' = [call EXCEPT !.raised = "NotBound"]
                /\ pending' = NoRequest
                /\ UNCHANGED << socklist, link_elapsed, req_tid, sockstate,
                                link_seen_up >>
           ELSE IF ~link_status
           THEN \* lines 364-368
                LET close == LinkExpired(link_elapsed)
                             /\ sockstate[cur] # "closed"
                IN  /\ current_sock' = cur
                    /\ sockstate' = IF close THEN [sockstate EXCEPT ![cur] = "closed"]
                                    ELSE sockstate
                    /\ last' = [call EXCEPT !.closed = close]
                    /\ pending' = NoRequest
                    /\ UNCHANGED << socklist, link_elapsed, req_tid, link_seen_up >>
           ELSE \* lines 371-427
                LET rd == ReadSocket(sockstate[cur], read_fails, flag_updated)
                    seen == [call EXCEPT !.is_connected = rd.is_connected,
                                         !.is_closed = rd.is_closed]
                IN  /\ link_elapsed' = 0
                    /\ link_seen_up' = TRUE
                    /\ IF ~rd.is_connected
                       THEN IF MustReplace(rd.is_connected, rd.is_closed)
                            THEN LET new == NewSockFor(current_socknum + 1, cur)
                                 IN  /\ current_sock' = new
                                     /\ socklist' = ReplaceSlot(socklist, current_socknum, new)
                                     /\ sockstate' = [sockstate EXCEPT ![cur] = "free",
                                                                       ![new] = "listen"]
                                     /\ last' = [seen EXCEPT !.replaced = TRUE]
                                     /\ pending' = NoRequest
                                     /\ UNCHANGED req_tid
                            ELSE /\ current_sock' = cur
                                 /\ sockstate' = [sockstate EXCEPT ![cur] = rd.st]
                                 /\ last' = seen
                                 /\ pending' = NoRequest
                                 /\ UNCHANGED << socklist, req_tid >>
                       ELSE LET r == Receive(cur, socklist, n, req_tid, addr_list, rx)
                            IN  /\ current_sock' = cur
                                /\ req_tid' = r.tid
                                /\ pending' = r.request
                                /\ last' = [seen EXCEPT !.recv = TRUE,
                                                        !.addr_list = addr_list,
                                                        !.recv_err = rx.err,
                                                        !.frame = rx.data,
                                                        !.ret = r.ret,
                                                        !.raised = r.raised,
                                                        !.sent = r.sent]
                                /\ UNCHANGED << socklist, sockstate >>

\* one call of get_request by the server loop
Poll(addr_list) ==
    \E i \in PollInputs(addr_list) : GetRequest(addr_list, i.rx, i.f, i.u)

(***************************************************************************)
(* The caller's reply to the Request it was given: Request.send_response   *)
(* and Request.send_exception passing the request's unit address to        *)
(* TCPServer.send_response (lines 307-313) and send_exception_response     *)
(* (lines 329-331).                                                        *)
(***************************************************************************)
Reply(op, pdu) ==
    LET sent == Send(current_sock, socklist, socknum, req_tid, pdu, pending.unit_addr)
    IN  /\ pending # NoRequest
        /\ last' = [Idle EXCEPT !.op = op, !.req = pending, !.sent = sent,
                                !.raised = IF sent = << >> THEN "AttributeError"
                                           ELSE "none"]
        /\ pending' = NoRequest
        /\ UNCHANGED << socklist, socknum, current_sock, is_bound, link_elapsed,
                        req_tid, sockstate, link_status, down_for,
                        link_seen_up, recent >>
        /\ UNCHANGED << mainvars, appvars, halvars, clientvars >>

SendResponse(pdu) == Reply("send_response", pdu)

SendExceptionResponse(code) ==
    Reply("send_exception_response", ExceptionPdu(pending.function, code))

(***************************************************************************)
(* The environment: peers, the ethernet link and the clock.                *)
(***************************************************************************)
EnvStep ==
    /\ last' = Idle
    /\ UNCHANGED << socklist, socknum, current_sock, is_bound, req_tid,
                    link_seen_up, pending, recent >>
    /\ UNCHANGED << mainvars, appvars, halvars, clientvars >>

ClientConnect(s) ==
    /\ link_status
    /\ sockstate[s] = "listen"
    /\ sockstate' = [sockstate EXCEPT ![s] = "established"]
    /\ EnvStep
    /\ UNCHANGED << link_status, down_for, link_elapsed >>

PeerDisconnect(s) ==
    /\ sockstate[s] = "established"
    /\ sockstate' = [sockstate EXCEPT ![s] = "closewait"]
    /\ EnvStep
    /\ UNCHANGED << link_status, down_for, link_elapsed >>

LinkDown ==
    /\ link_status
    /\ link_status' = FALSE
    /\ down_for' = 0
    /\ EnvStep
    /\ UNCHANGED << sockstate, link_elapsed >>

LinkUp ==
    /\ ~link_status
    /\ link_status' = TRUE
    /\ down_for' = 0
    /\ EnvStep
    /\ UNCHANGED << sockstate, link_elapsed >>

Tick ==
    /\ link_elapsed' = Min(link_elapsed + 1, LinkTimeout)
    /\ down_for' = IF link_status THEN 0 ELSE Min(down_for + 1, LinkTimeout)
    /\ EnvStep
    /\ UNCHANGED << sockstate, link_status >>

Next ==
    \/ \E n \in 0..MaxConn : Bind(n)
    \/ Poll(UNIT_ADDR)
    \/ Poll(None)
    \/ \E pdu \in RespPdus : SendResponse(pdu)
    \/ \E code \in ReplyCodes : SendExceptionResponse(code)
    \/ \E s \in SockIds : ClientConnect(s)
    \/ \E s \in SockIds : PeerDisconnect(s)
    \/ LinkDown
    \/ LinkUp
    \/ Tick

Spec == Init /\ [][Next]_vars

(***************************************************************************)
(* The main loop, main.py lines 29-44. One iteration calls                 *)
(* client.process() inside the try statement, then blinks the LED when     *)
(* half a second has passed, then feeds the watchdog. process() returns,   *)
(* or raises an Exception (a hook or the transport raising), or is cut     *)
(* short by KeyboardInterrupt.                                             *)
(***************************************************************************)
ProcessOutcomes == {"return", "Exception", "KeyboardInterrupt"}

\* lines 30-36: what the try statement does with the way process() ended
MainHandlerBare(how) == IF how = "return" THEN "continue" ELSE "break"

MainHandler(how) == IF how = "KeyboardInterrupt" THEN "break" ELSE "continue"

\* lines 30-36
MainProcess(how) ==
    /\ main_pc = "process"
    /\ iter < MaxIter
    /\ proc_calls' = proc_calls + 1
    /\ outcome' = how
    /\ IF MainHandler(how) = "break"
       THEN /\ main_pc' = "stopped"
            /\ stop_cause' = how
       ELSE /\ main_pc' = "blink"
            /\ UNCHANGED stop_cause
    /\ UNCHANGED << iter, wd_feeds, led >>
    /\ UNCHANGED << tcpvars, appvars, halvars, clientvars >>

\* lines 38-41; due: time.monotonic() - timestamp >= 0.5
MainBlink(due) ==
    /\ main_pc = "blink"
    /\ led' = IF due THEN 1 - led ELSE led
    /\ main_pc' = "feed"
    /\ UNCHANGED << iter, proc_calls, wd_feeds, outcome, stop_cause >>
    /\ UNCHANGED << tcpvars, appvars, halvars, clientvars >>

\* line 44, and back to line 29
MainFeed ==
    /\ main_pc = "feed"
    /\ wd_feeds' = wd_feeds + 1
    /\ iter' = iter + 1
    /\ outcome' = "none"
    /\ main_pc' = "process"
    /\ UNCHANGED << proc_calls, stop_cause, led >>
    /\ UNCHANGED << tcpvars, appvars, halvars, clientvars >>

\* KeyboardInterrupt raised outside the try statement (lines 38-44) is not
\* caught and ends the program
MainInterrupt ==
    /\ main_pc \in {"blink", "feed"}
    /\ main_pc' = "stopped"
    /\ stop_cause' = "KeyboardInterrupt"
    /\ UNCHANGED << iter, proc_calls, wd_feeds, outcome, led >>
    /\ UNCHANGED << tcpvars, appvars, halvars, clientvars >>

MainNext ==
    \/ \E how \in ProcessOutcomes : MainProcess(how)
    \/ \E due \in BOOLEAN : MainBlink(due)
    \/ MainFeed
    \/ MainInterrupt

MainSpec == Init /\ [][MainNext]_vars

(***************************************************************************)
(* Requests served on the register map. The master addresses the outputs,  *)
(* and the enable coil, the reset coil and the count registers of the      *)
(* first MaxChannels counter channels.                                     *)
(***************************************************************************)
UsedChannels == {ChannelSeq[i] : i \in 1..MaxChannels}

\* the channel a request addresses, 0 when it addresses none
ChannelOf(r) ==
    IF \E c \in CounterChannels : r.address \in {EnAdd(c), RstAdd(c), HAdd(c)}
    THEN CHOOSE c \in CounterChannels : r.address \in {EnAdd(c), RstAdd(c), HAdd(c)}
    ELSE 0

\* the levels at the eleven input pins: all low, or all high
PinLevels == {[i \in 0..10 |-> v] : v \in {0, 1}}

\* the levels that matter to request r: only din_get_cb reads the pins
PinsFor(r) ==
    IF r.fc = READ_DISCRETE_INPUTS THEN PinLevels ELSE {[i \in 0..10 |-> 0]}

Requests ==
    { ReadCoilsReq(DO0_ADD, 4), ReadCoilsReq(DO0_ADD, 5) }
    \cup { WriteCoilReq(DO0_ADD, v) : v \in {0, 1} }
    \cup { WriteCoilReq(EnAdd(c), v) : c \in UsedChannels, v \in {0, 1} }
    \cup { WriteCoilReq(RstAdd(c), v) : c \in UsedChannels, v \in {0, 1} }
    \cup { ReadIregsReq(HAdd(c), 2) : c \in UsedChannels }

\* one call of process() that finds request r
Process(r) ==
    \E p \in PinsFor(r) :
    \E res \in { Serve(r, [coils |-> coils, iregs |-> iregs, ists |-> ists,
                           counters |-> counters, dout |-> dout,
                           pins |-> p, seen |-> << >>, raised |-> "none"]) } :
    LET c == ChannelOf(r)
    IN  /\ coils' = res.a.coils
        /\ iregs' = res.a.iregs
        /\ ists' = res.a.ists
        /\ counters' = res.a.counters
        /\ dout' = res.a.dout
        /\ app_last' = [req |-> r, kind |-> res.kind, code |-> res.code,
                        values |-> res.values, payload |-> res.payload,
                        raised |-> res.a.raised,
                        was_on |-> IF c = 0 THEN FALSE ELSE counters[c].on,
                        seen |-> res.a.seen]
        /\ UNCHANGED << tcpvars, mainvars, halvars, clientvars >>

\* the hardware counts falling edges on the pin of an enabled counter
CountEdges(c, v) ==
    /\ counters[c].on
    /\ v > counters[c].count
    /\ counters' = [counters EXCEPT ![c].count = v]
    /\ app_last' = NoApp
    /\ UNCHANGED << coils, iregs, ists, dout >>
    /\ UNCHANGED << tcpvars, mainvars, halvars, clientvars >>

AppNext ==
    \/ \E r \in Requests : Process(r)
    \/ \E c \in UsedChannels, v \in CountValues : CountEdges(c, v)

AppSpec == Init /\ [][AppNext]_vars

(***************************************************************************)
(* Requests served on the digital inputs and outputs. The master reads the *)
(* inputs DI0 and DI1, writes the first MaxOutputs outputs and the enable  *)
(* coil of the first MaxChannels counter channels.                         *)
(***************************************************************************)
IoRequests ==
    { ReadIstsReq(DI0_ADD, 2) }
    \cup { WriteCoilReq(DoAdd(i), v) : i \in 0..(MaxOutputs - 1), v \in {0, 1} }
    \cup { WriteCoilReq(EnAdd(c), v) : c \in UsedChannels, v \in {0, 1} }

IoNext == \E r \in IoRequests : Process(r)

IoSpec == Init /\ [][IoNext]_vars

(***************************************************************************)
(* Direct calls of en_counter and dis_counter (iriv_ioc_hal.py) with any   *)
(* channel number of 0 .. MaxChannelNo, and edges counted in between.      *)
(***************************************************************************)
HalChannels == 0..MaxChannelNo

HalCall(op, channel, r) ==
    /\ counters' = r.counters
    /\ hal_last' = [op |-> op, channel |-> channel, ret |-> r.ret,
                    before |-> counters,
                    prev |-> [op |-> hal_last.op, channel |-> hal_last.channel]]
    /\ UNCHANGED << coils, iregs, ists, dout, app_last >>
    /\ UNCHANGED << tcpvars, mainvars, clientvars >>

HalEnCounter(channel) == HalCall("en_counter", channel, EnCounter(counters, channel))

HalDisCounter(channel) == HalCall("dis_counter", channel, DisCounter(counters, channel))

\* the hardware counts falling edges on the pin of an enabled counter
HalCountEdges(c, v) ==
    /\ counters[c].on
    /\ v > counters[c].count
    /\ counters' = [counters EXCEPT ![c].count = v]
    /\ hal_last' = NoHal
    /\ UNCHANGED << coils, iregs, ists, dout, app_last >>
    /\ UNCHANGED << tcpvars, mainvars, clientvars >>

HalNext ==
    \/ \E channel \in HalChannels : HalEnCounter(channel)
    \/ \E channel \in HalChannels : HalDisCounter(channel)
    \/ \E c \in UsedChannels \cap HalChannels, v \in CountValues : HalCountEdges(c, v)

HalSpec == Init /\ [][HalNext]_vars

(***************************************************************************)
(* The TCP client's _create_mbap_hdr (tcp.py, lines 94-119).               *)
(***************************************************************************)
\* the largest value of an 'H' field
MAX_U16 == 65535

\* slave addresses the caller passes
SlaveAddrs == {1, UNIT_ADDR}

\* lines 116-117: struct.pack('>HHHB', trans_id, 0, len(modbus_pdu) + 1,
\* slave_addr). A value beyond an 'H' field makes struct.pack raise
\* (CPython, CircuitPython) or store its low 16 bits (MicroPython).
PackHdr(trans_id, slave_addr, pdu) ==
    IF trans_id <= MAX_U16
    THEN { [raised |-> "none", hdr |-> Mbap(trans_id, 0, Len(pdu) + 1, slave_addr)] }
    ELSE { [raised |-> "OverflowError", hdr |-> << >>],
           [raised |-> "none",
            hdr |-> Mbap(trans_id % (MAX_U16 + 1), 0, Len(pdu) + 1, slave_addr)] }

\* lines 113-119: one call of _create_mbap_hdr
CreateMbapHdr(slave_addr, pdu) ==
    /\ client_calls < MaxCalls
    /\ \E o \in PackHdr(trans_id_ctr, slave_addr, pdu) :
          client_last' = [raised |-> o.raised, hdr |-> o.hdr,
                          trans_id |-> IF o.raised = "none" THEN trans_id_ctr
                                       ELSE Unset]
    /\ trans_id_ctr' = trans_id_ctr + 1
    /\ client_calls' = client_calls + 1
    /\ UNCHANGED << tcpvars, mainvars, appvars, halvars >>

ClientNext == \E slave_addr \in SlaveAddrs : CreateMbapHdr(slave_addr, PduReadCoils)

ClientSpec == Init /\ [][ClientNext]_vars

(***************************************************************************)
(* Properties.                                                             *)
(***************************************************************************)
Replies == {"send_response", "send_exception_response"}

\* the transaction id and unit id fields of a sent ADU
AduTid(adu) == U16(adu[1], adu[2])
AduUid(adu) == adu[MBAP_HDR_LENGTH]

\* the latest call was a get_request that inspected a socket of the pool
Polled == last.op = "get_request" /\ last.slot # Unset

\* C1: a reply sent for the Request that get_request returned, before the
\* next get_request call, carries in its MBAP header the transaction id of
\* the frame that Request was parsed from.
C1_ReplyTransactionId ==
    last.op \in Replies =>
        \A i \in 1..Len(last.sent) : AduTid(last.sent[i].adu) = last.req.tid

\* C1 witness: with two sockets in the pool, a reply went out for a request
\* with transaction id 258 after another id had been parsed on the pool.
C1_Witness ==
    /\ last.op \in Replies
    /\ Len(last.sent) = 1
    /\ last.req.tid = 258
    /\ Len(socklist) = 2

\* C2: the reply is written to the socket the Request was received on, not
\* to the socket of the slot the cursor has advanced to.
C2_ReplySocket ==
    last.op \in Replies =>
        \A i \in 1..Len(last.sent) : last.sent[i].sock = last.req.sock

\* C2 witness: the request came from the last slot of a pool of two, the
\* cursor has wrapped to slot 0, which holds another socket, and the reply
\* was sent.
C2_Witness ==
    /\ last.op \in Replies
    /\ Len(last.sent) = 1
    /\ Len(socklist) = 2
    /\ socknum = 0
    /\ socklist[2] = last.req.sock
    /\ socklist[socknum + 1] # last.req.sock

\* C3: every get_request call on a pool of N >= 1 sockets inspects the slot
\* at the cursor and advances the cursor by one modulo N, whatever the call's
\* outcome; the slots inspected by up to N consecutive calls are one run of
\* the round robin, each slot at most once, so N consecutive calls inspect
\* every slot exactly once.
C3_RoundRobin ==
    LET N == Len(socklist)
    IN  N >= 1 =>
          /\ socknum \in 0..(N - 1)
          /\ Len(recent) <= N
          /\ \A i \in 1..Len(recent) : recent[i] \in 0..(N - 1)
          /\ \A i, j \in 1..Len(recent) : i # j => recent[i] # recent[j]
          /\ \A i \in 1..(Len(recent) - 1) : recent[i + 1] = (recent[i] + 1) % N
          /\ Len(recent) >= 1 => socknum = (recent[Len(recent)] + 1) % N
          /\ last.op = "get_request" =>
                /\ Len(recent) >= 1
                /\ last.slot = recent[Len(recent)]
                /\ last.sock # None

\* C3 witness: two consecutive calls on a pool of two inspected slot 1 and
\* then, after the wrap-around, slot 0, the second with the link down.
C3_Witness ==
    /\ Len(socklist) = 2
    /\ recent = <<1, 0>>
    /\ last.op = "get_request"
    /\ ~link_status
    /\ socknum = 1

\* C4: get_request never closes a socket before the link has been down for
\* 5 seconds, the first get_request after bind included.
C4_NoCloseBeforeTimeout ==
    (Polled /\ last.closed) => down_for >= LinkTimeout

\* C5: with the link down, get_request returns no request, attempts no
\* receive, creates no socket and sends nothing; and when at least 5 seconds
\* have passed since a get_request last observed the link up, the inspected
\* socket is closed afterwards.
C5_LinkDownPoll ==
    (Polled /\ ~link_status) =>
        /\ last.ret = "none"
        /\ last.raised = "none"
        /\ ~last.recv
        /\ ~last.replaced
        /\ last.sent = << >>
        /\ pending = NoRequest
        /\ socklist[last.slot + 1] = last.sock
        /\ current_sock = last.sock
        /\ (link_seen_up /\ link_elapsed >= LinkTimeout) =>
              sockstate[last.sock] = "closed"
        /\ last.closed => sockstate[last.sock] = "closed"
        /\ ~last.closed => sockstate[last.sock] = last.was

\* C5 witness: a connected socket was closed by a call made 5 seconds after
\* a get_request had last observed the link up.
C5_Witness ==
    /\ Polled
    /\ ~link_status
    /\ link_seen_up
    /\ last.closed
    /\ last.was = "established"

\* C6: a get_request that inspects, with the link up, a socket that is
\* closed (as the force-close on a link down for 5 seconds leaves it) puts a
\* new, listening socket object into that slot; and no Request is held that
\* came from a closed socket.
C6_ClosedSocketRecreated ==
    /\ (Polled /\ link_status /\ last.was = "closed") =>
          /\ last.replaced
          /\ last.ret = "none"
          /\ socklist[last.slot + 1] # last.sock
          /\ sockstate[socklist[last.slot + 1]] = "listen"
    /\ (Polled /\ last.ret = "request") => last.was = "established"
    /\ pending # NoRequest => sockstate[pending.sock] # "closed"

\* C6 witness: the socket found closed was replaced by a listening one.
C6_Witness ==
    /\ Polled
    /\ link_status
    /\ last.was = "closed"
    /\ last.replaced
    /\ sockstate[socklist[last.slot + 1]] = "listen"

\* C7: with the link up, get_request replaces the inspected slot's socket by
\* a new listening socket exactly when the socket is read as not connected
\* and closed (a failed read counts as that); a socket read as not connected
\* and not closed is kept as it is; in both cases no request is returned.
C7_ReplaceIffClosed ==
    (Polled /\ link_status) =>
        /\ last.replaced <=> (~last.is_connected /\ last.is_closed)
        /\ last.replaced =>
              /\ socklist[last.slot + 1] # last.sock
              /\ current_sock = socklist[last.slot + 1]
              /\ sockstate[socklist[last.slot + 1]] = "listen"
        /\ ~last.replaced =>
              /\ socklist[last.slot + 1] = last.sock
              /\ sockstate[last.sock] = last.was
        /\ ~last.is_connected =>
              /\ last.ret = "none"
              /\ ~last.recv
              /\ last.sent = << >>

\* C7 witness: a socket whose peer has gone but that is not closed yet was
\* inspected and kept.
C7_Witness ==
    /\ Polled
    /\ link_status
    /\ last.was = "closewait"
    /\ ~last.is_connected
    /\ ~last.is_closed
    /\ ~last.replaced

\* C8: a get_request call leaves every slot other than the inspected one
\* with the same socket object in the same state, keeps the pool's size,
\* and sends only on the inspected socket.
C8_OtherSlotsUntouched ==
    [][ last'.op = "get_request" =>
           /\ Len(socklist') = Len(socklist)
           /\ \A j \in 1..Len(socklist) :
                 j # last'.slot + 1 =>
                    /\ socklist'[j] = socklist[j]
                    /\ sockstate'[socklist[j]] = sockstate[socklist[j]]
           /\ \A i \in 1..Len(last'.sent) : last'.sent[i].sock = last'.sock ]_vars

\* C8 witness: slot 1 of a pool of two had its socket replaced while slot 0
\* holds a connected peer.
C8_Witness ==
    /\ Polled
    /\ Len(socklist) = 2
    /\ last.slot = 1
    /\ last.replaced
    /\ sockstate[socklist[1]] = "established"

\* C9: whatever bytes or I/O error the receive delivers, get_request returns
\* no request or a Request and raises nothing to its caller.
C9_ReceiveNeverRaises ==
    (Polled /\ last.recv) => last.raised = "none"

\* C10: a received frame whose protocol id is not 0 is dropped: no request
\* is returned, no Request is built, nothing is sent and nothing is raised.
HasBadPid(frame) == Len(frame) >= 4 /\ U16(frame[3], frame[4]) # 0

C10_BadProtocolIdDropped ==
    (Polled /\ last.recv /\ ~last.recv_err /\ HasBadPid(last.frame)) =>
        /\ last.ret = "none"
        /\ last.raised = "none"
        /\ last.sent = << >>
        /\ pending = NoRequest

\* C10 witness: a complete frame with protocol id 1 and an otherwise valid
\* request was received and dropped.
C10_Witness ==
    /\ Polled
    /\ last.recv
    /\ Len(last.frame) > MBAP_HDR_LENGTH
    /\ HasBadPid(last.frame)
    /\ last.ret = "none"

\* the unit id and PDU that get_request cuts out of a received frame
UidAndPdu(frame) == ParseHeader(frame).uid_and_pdu

\* the latest call received a frame with a valid header, protocol id 0 and
\* at least a unit id byte
GotFrame ==
    /\ Polled
    /\ last.recv
    /\ ~last.recv_err
    /\ Len(last.frame) >= MBAP_HDR_LENGTH
    /\ ~HasBadPid(last.frame)
    /\ Len(UidAndPdu(last.frame)) >= 1

\* the unit id of the frame is foreign to the configured allow-list
Foreign == last.addr_list # None /\ UidAndPdu(last.frame)[1] # last.addr_list

\* C11: with a unit-id allow-list configured, a frame whose unit id is not
\* in the list yields no request and nothing is sent; a frame whose unit id
\* is in the list, or any frame when no list is configured, goes on to
\* request decoding: the call's outcome is the outcome of decoding it.
C11_UnitIdFilter ==
    GotFrame =>
        LET d == DecodeRequest(UidAndPdu(last.frame))
        IN  IF Foreign
            THEN /\ last.ret = "none"
                 /\ last.raised = "none"
                 /\ last.sent = << >>
                 /\ pending = NoRequest
            ELSE /\ d.kind = "request" =>
                       /\ last.ret = "request"
                       /\ pending.unit_addr = UidAndPdu(last.frame)[1]
                       /\ pending.function = d.function
                 /\ d.kind = "modbus" => Len(last.sent) = 1

\* C11 witness: with the list [0xff] configured, a well-formed ReadCoils
\* frame for unit id 1 was received and dropped.
C11_Witness ==
    /\ GotFrame
    /\ last.addr_list = UNIT_ADDR
    /\ UidAndPdu(last.frame)[1] = 1
    /\ DecodeRequest(UidAndPdu(last.frame)).kind = "request"
    /\ last.ret = "none"
    /\ last.sent = << >>

\* C12: when decoding the PDU of a received frame fails with a Modbus
\* exception, get_request sends exactly one reply, an exception PDU with
\* that function code (plus the error bias) and that exception code, on the
\* socket the frame arrived on, and returns no request.
C12_DecodeExceptionReply ==
    (GotFrame /\ ~Foreign /\ DecodeRequest(UidAndPdu(last.frame)).kind = "modbus") =>
        LET d == DecodeRequest(UidAndPdu(last.frame))
        IN  /\ last.ret = "none"
            /\ last.raised = "none"
            /\ pending = NoRequest
            /\ Len(last.sent) = 1
            /\ last.sent[1].sock = last.sock
            /\ Len(last.sent[1].adu) = MBAP_HDR_LENGTH + 2
            /\ last.sent[1].adu[MBAP_HDR_LENGTH + 1] = (d.function + ERROR_BIAS) % 256
            /\ last.sent[1].adu[MBAP_HDR_LENGTH + 2] = d.code

\* C12 witness: a ReadCoils frame with quantity 0 arrived on the second
\* socket of the pool and was answered with IllegalDataValue.
C12_Witness ==
    /\ GotFrame
    /\ last.slot = 1
    /\ Len(last.sent) = 1
    /\ last.sent[1].adu[MBAP_HDR_LENGTH + 1] = 129
    /\ last.sent[1].adu[MBAP_HDR_LENGTH + 2] = ILLEGAL_DATA_VALUE
    /\ last.ret = "none"

\* C20: get_request called while the pool is empty (never bound, or bound
\* with max_connections < 1) raises the 'Modbus TCP server not bound'
\* exception.
C20_EmptyPoolNotBound ==
    (last.op = "get_request" /\ Len(socklist) = 0) => last.raised = "NotBound"

\* C13: every iteration of the main loop calls process() once and then
\* feeds the watchdog once, whether process() returned or raised an
\* exception other than KeyboardInterrupt; no such exception ends the loop,
\* which ends only on KeyboardInterrupt.
C13_MainLoopFeeds ==
    /\ main_pc = "process" => (proc_calls = iter /\ wd_feeds = iter)
    /\ main_pc \in {"blink", "feed"} =>
          /\ proc_calls = iter + 1
          /\ wd_feeds = iter
          /\ outcome \in {"return", "Exception"}
    /\ main_pc = "stopped" =>
          /\ stop_cause = "KeyboardInterrupt"
          /\ proc_calls = iter + 1
          /\ wd_feeds = iter
    /\ main_pc # "stopped" => stop_cause = "none"

\* C13 witness: process() raised an Exception in the third iteration and
\* the loop went on to feed the watchdog and to start the fourth iteration.
C13_Witness ==
    /\ main_pc = "blink"
    /\ outcome = "Exception"
    /\ iter = 2
    /\ wd_feeds = 2
    /\ proc_calls = 3

(***************************************************************************)
(* Properties of the register map and of the hooks.                        *)
(***************************************************************************)
\* the address range [register, register + len) of an entry
Range(e) == e.register .. (e.register + e.len - 1)

\* process() served request r last and answered it with a response
Served(r) == app_last.req = r /\ app_last.kind = "response"

\* C14: within each register space of the deployed register map the address
\* ranges [register, register + len) of the entries are pairwise disjoint,
\* and every entry's initial value has exactly len elements (so has the
\* value the table holds for it once set up).
C14_RegisterMapDisjoint ==
    /\ \A sp \in DOMAIN register_definitions :
          /\ \A e1, e2 \in register_definitions[sp] :
                e1 # e2 => Range(e1) \cap Range(e2) = {}
          /\ \A e \in register_definitions[sp] : e.len >= 1 /\ Len(e.val) = e.len
    /\ \A e \in register_definitions.COILS : Len(coils[e.register]) = e.len
    /\ \A e \in register_definitions.IREGS : Len(iregs[e.register]) = e.len

\* C14 witness: the two-word entry COUNT3, whose range starts where the
\* range of COUNT1 ends, was read as one entry of two words while counter 1
\* had stored its own two words.
C14_Witness ==
    /\ Served(ReadIregsReq(COUNT3_H_ADD, 2))
    /\ Len(app_last.values) = 2
    /\ iregs[COUNT1_H_ADD] = <<1, 256>>

\* the coils DO0..DO3 all hold 0
DoutCoilsZero ==
    \A ad \in {DO0_ADD, DO1_ADD, DO2_ADD, DO3_ADD} : coils[ad] = <<0>>

C16_EnableClearsCounter ==
    /\ (app_last.req = WriteCoilReq(COUNT1_EN_ADD, 1) /\ ~app_last.was_on) =>
          /\ app_last.kind = "response"
          /\ coils[COUNT1_EN_ADD] = <<1>>
          /\ counters[1] = NewCounter
          /\ iregs[COUNT1_H_ADD] = <<0, 0>>
    /\ (app_last.req = ReadIregsReq(COUNT1_H_ADD, 2)
        /\ counters[1] = NewCounter) =>
          /\ app_last.kind = "response"
          /\ app_last.values = <<0, 0>>

\* C16 witness: counter 1 is enabled with no edge counted and the read of
\* its registers returned [0,0], while counter 3 has counted.
C16_Witness ==
    /\ Served(ReadIregsReq(COUNT1_H_ADD, 2))
    /\ counters[1] = NewCounter
    /\ app_last.values = <<0, 0>>
    /\ counters[3].count > 0

\* C17: for every counter channel, enabled or disabled, a write of 1 to the
\* channel's reset coil is served without the hook raising, leaves the reset
\* coil at 0 and leaves the channel's two counter registers at [0,0].
C17_ResetNeverRaises ==
    \A c \in CounterChannels :
        app_last.req = WriteCoilReq(RstAdd(c), 1) =>
            /\ app_last.raised = "none"
            /\ coils[RstAdd(c)] = <<0>>
            /\ iregs[HAdd(c)] = <<0, 0>>

\* C18: both values counter_get_cb stores into a counter's two input
\* registers are unsigned 16-bit words.
C18_CounterWords16Bit ==
    \A c \in CounterChannels :
        \A i \in 1..Len(iregs[HAdd(c)]) : iregs[HAdd(c)][i] \in 0..65535

\* C19: the two words counter_get_cb stores at COUNTn_H and COUNTn_L are the
\* most and the least significant 16-bit halves of the count:
\* high = count div 65536, low = count mod 65536.
C19_CounterHighLow ==
    \A c \in CounterChannels :
        (Served(ReadIregsReq(HAdd(c), 2)) /\ counters[c].on) =>
            iregs[HAdd(c)] = << counters[c].count \div 65536,
                                counters[c].count % 65536 >>

\* the socket objects of the pool
Pool == {socklist[i] : i \in 1..Len(socklist)}

C22_ExceptionReplyUnitId ==
    (GotFrame /\ ~Foreign /\ Len(last.sent) = 1) =>
        AduUid(last.sent[1].adu) = UidAndPdu(last.frame)[1]

\* C27: in every state reached by bind calls (with any max_connections,
\* values below 1 included) and get_request calls, is_bound is True only
\* if the socket pool is not empty.
C27_BoundImpliesPool ==
    is_bound => Len(socklist) >= 1

\* the request served last is a write of value v to the enable coil of c
EnableWrite(last_req, c, v) == last_req = WriteCoilReq(EnAdd(c), v)

\* C23: after every run of counter_en_set_cb, hence after any sequence of
\* writes to the enable coils, for each channel c of 1, 3, 5, 7, 9 the enable
\* coil is 1 iff the counter object exists and the digital input is
\* deinitialised, and it is 0 iff the counter object is absent and the
\* digital input is initialised.
C23_EnableCoilMatchesCounter ==
    \A c \in CounterChannels :
        /\ GetCoil(coils, EnAdd(c)) = 1 <=> (counters[c].on /\ ~counters[c].din)
        /\ GetCoil(coils, EnAdd(c)) = 0 <=> (~counters[c].on /\ counters[c].din)

\* C23 witness: counter 1 was enabled and has just been disabled by a write
\* of 0 to its enable coil, while counter 3 is enabled.
C23_Witness ==
    /\ EnableWrite(app_last.req, 1, 0)
    /\ app_last.kind = "response"
    /\ app_last.was_on
    /\ counters[1] = NoCounter
    /\ counters[3].on
    /\ GetCoil(coils, EnAdd(3)) = 1

\* C24: a run of counter_en_set_cb for a write to the enable coil of channel
\* c changes the counter object, the count and the two count registers of a
\* channel only when that channel is c and the written value differs from
\* the counter's state: every other channel is left alone, and so is c when
\* 1 is written while its counter is enabled (or 0 while it is disabled).
C24_EnableHookFrame ==
    [][ \A c \in CounterChannels, v \in {0, 1} :
          EnableWrite(app_last'.req, c, v) =>
              \A d \in CounterChannels :
                  (d # c \/ (v = 1) = counters[d].on) =>
                      /\ counters'[d] = counters[d]
                      /\ iregs'[HAdd(d)] = iregs[HAdd(d)] ]_vars

\* C24 witness: 1 was written to the enable coil of counter 1 while the
\* counter was enabled, had counted edges and its registers held a count.
C24_Witness ==
    /\ EnableWrite(app_last.req, 1, 1)
    /\ app_last.was_on
    /\ counters[1].on
    /\ counters[1].count > 0
    /\ iregs[COUNT1_H_ADD] # <<0, 0>>
    /\ counters[3].on

\* the inputs without counter function
PlainInputs == {0, 2, 4, 6, 8, 10}

\* C25: when din_get_cb runs, the register of an input of 1, 3, 5, 7, 9
\* whose enable coil is 1 is set to 0 without its pin being read, the
\* register of one whose enable coil is 0 is set to the level of its pin,
\* and the registers of the inputs 0, 2, 4, 6, 8, 10 are set to the levels of
\* their pins; no pin that din_get_cb reads is deinitialised.
C25_DinGetCb ==
    app_last.req.fc = READ_DISCRETE_INPUTS =>
        /\ app_last.raised = "none"
        /\ \A c \in CounterChannels :
              IF GetCoil(coils, EnAdd(c)) = 1
              THEN /\ ists[DiAdd(c)] = <<0>>
                   /\ c \notin DOMAIN app_last.seen
              ELSE /\ c \in DOMAIN app_last.seen
                   /\ counters[c].din
                   /\ ists[DiAdd(c)] = <<app_last.seen[c]>>
        /\ \A i \in PlainInputs :
              /\ i \in DOMAIN app_last.seen
              /\ ists[DiAdd(i)] = <<app_last.seen[i]>>

\* C25 witness: the inputs were read with every pin high, counter 1 enabled
\* and counter 3 disabled: DI1 reads 0, DI0 and DI3 read 1.
C25_Witness ==
    /\ app_last.req.fc = READ_DISCRETE_INPUTS
    /\ app_last.kind = "response"
    /\ GetCoil(coils, EnAdd(1)) = 1
    /\ GetCoil(coils, EnAdd(3)) = 0
    /\ ists[DI0_ADD] = <<1>>
    /\ ists[DI1_ADD] = <<0>>
    /\ ists[DI3_ADD] = <<1>>
    /\ app_last.values = <<1, 0>>

\* C26: after any sequence of writes to the coils DO0 .. DO3, each followed
\* by dout_set_cb, and initially, every digital output equals the stored
\* value of its coil.
C26_OutputsFollowCoils ==
    \A i \in 0..3 : dout[i] = GetCoil(coils, DoAdd(i))

\* C26 witness: 1 was written to the coil of DO1 while DO0 is at 0.
C26_Witness ==
    /\ app_last.req = WriteCoilReq(DO1_ADD, 1)
    /\ app_last.kind = "response"
    /\ dout[1] = 1
    /\ dout[0] = 0

\* C28: every call of _create_mbap_hdr on one client succeeds, the k-th call
\* returns the transaction id k-1 (so no id is returned twice), and the
\* 16-bit transaction-id field of the header it returns encodes that id.
C28_TransactionIds ==
    client_calls >= 1 =>
        /\ client_last.raised = "none"
        /\ client_last.trans_id = client_calls - 1
        /\ AduTid(client_last.hdr) = client_last.trans_id

\* C29: en_counter(c) returns True and creates the counter of c exactly
\* when c is one of 1, 3, 5, 7, 9 and has no counter, dis_counter(c) returns
\* True and removes it exactly when c is one of them and has a counter;
\* otherwise each returns False and changes nothing. Neither changes another
\* channel, and dis_counter(c) right after en_counter(c) leaves c a plain
\* digital input without counter.
C29_EnDisCounter ==
    LET c == hal_last.channel
        b == hal_last.before
        others == \A d \in CounterChannels \ {c} : counters[d] = b[d]
    IN  /\ hal_last.op = "en_counter" =>
              IF c \in CounterChannels /\ ~b[c].on
              THEN hal_last.ret /\ counters[c] = NewCounter /\ others
              ELSE ~hal_last.ret /\ counters = b
        /\ hal_last.op = "dis_counter" =>
              IF c \in CounterChannels /\ b[c].on
              THEN hal_last.ret /\ counters[c] = NoCounter /\ others
              ELSE ~hal_last.ret /\ counters = b
        /\ ( /\ hal_last.op = "dis_counter"
             /\ hal_last.prev = [op |-> "en_counter", channel |-> c]
             /\ c \in CounterChannels ) =>
              hal_last.ret /\ counters[c] = NoCounter

\* C29 witness: en_counter(1) and then dis_counter(1) were called while
\* counter 3 was enabled and had counted edges.
C29_Witness ==
    /\ hal_last.op = "dis_counter"
    /\ hal_last.channel = 1
    /\ hal_last.prev = [op |-> "en_counter", channel |-> 1]
    /\ hal_last.ret
    /\ counters[1] = NoCounter
    /\ counters[3].on
    /\ counters[3].count > 0

====
